---- MODULE Spec2Model ----
(***************************************************************************)
(* State-machine model of the starsystem ECS: a World (partition) holding  *)
(* an entity registry, a live count and one component table per enum       *)
(* variant, and a StarSystem (root store) holding worlds and the list of   *)
(* beings with their StarEntity / StarEntityProperty mirrors.              *)
(*                                                                         *)
(* Every operation is a pure operator from the state before the call to an *)
(* outcome record [sys | w, kind, val] where kind is "ok" (Ok(..)), "err"  *)
(* (Err(..)) or "panic" (an unwrap() on None/Err, a failed assert!, or an  *)
(* arithmetic overflow in a build with overflow checks).  On a panic the   *)
(* outcome carries the state as it was when the panic was raised.          *)
(***************************************************************************)
EXTENDS Integers, Sequences, FiniteSets, TLC

VARIABLES sys, nextUid, panicked, build, pc, frame, owner, poisoned

\* the store, the Uid counter, whether a call has panicked, the build
\* profile; and for the threads that call one World through clones of it:
\* the position of each thread in its call, its arguments and locals, the
\* thread that holds each mutex (0: none), and the poisoned mutexes
vars == <<sys, nextUid, panicked, build, pc, frame, owner, poisoned>>

threads == <<pc, frame, owner, poisoned>>

(***************************************************************************)
(* Bounds of the model.                                                    *)
(***************************************************************************)
\* at most MaxUid Uids are drawn in a behaviour for beings, entities and
\* components (the Uid of a world is not counted)
MaxUid == 3
\* the same, in the behaviours that only conceive, attach and edit properties
MaxAttachUid == 4
\* the same, in the behaviours of a single World
MaxWorldUid == 3
\* at most MaxBeings beings in the beings list
MaxBeings == 2
\* at most MaxEntities entity mirrors per being
MaxEntities == 2
\* at most MaxLoc pairs in an entity's location list
MaxLoc == 2

\* the caller's enum T: the discriminant indexes of its variants
Variants == {0, 1}
\* payloads a variant can carry
Payloads == {1}
\* the values of T
Values == [variant : Variants, data : Payloads]
\* display names of entities
Names == {"a", "b"}
\* display names of components
CompNames == {"a", "b"}
\* display names of beings
BeingNames == {"r"}
\* identifiers a caller can supply that Uid::new() never returned
ForeignUids == {0}
\* the two ways the crate can be built: with or without overflow checks
Builds == {"debug", "release"}
\* at most MaxThreads threads call the World at the same time
MaxThreads == 2
Threads == 1..MaxThreads
\* the three mutexes of a World
Locks == {"entities", "entities_count", "components"}

\* the arguments and locals of a thread's call: the method, its entity,
\* component id, value and name arguments, the location pairs it still has
\* to visit (the clone of the entity it took), the components it has
\* collected, the table index and key it has scanned for, and its result
Frame(op, entity, id, value, name) ==
    [op |-> op, entity |-> entity, id |-> id, value |-> value, name |-> name,
     todo |-> <<>>, got |-> <<>>, index |-> 0, key |-> id, res |-> "none",
     locked |-> FALSE]

NoFrame == Frame("none", 0, 0, [variant |-> 0, data |-> 1], "a")

\* no thread is in a call
NoThreads ==
    /\ pc = [t \in Threads |-> "idle"]
    /\ frame = [t \in Threads |-> NoFrame]
    /\ owner = [l \in Locks |-> 0]
    /\ poisoned = {}

(***************************************************************************)
(* Helpers on maps (BTreeMap) and vectors (Vec).                           *)
(***************************************************************************)
EmptyMap == [k \in {} |-> k]

\* BTreeMap::insert: replaces the value of an existing key
MapInsert(m, k, v) == (k :> v) @@ m

\* BTreeMap::remove / retain(|i, _| *i != k)
MapRemove(m, k) == [x \in (DOMAIN m) \ {k} |-> m[x]]

\* the first of the indexes of the matching elements, 0 when there is none
\* (Iterator::find / iter_mut().find)
FirstIdx(matching) ==
    IF matching = {}
    THEN 0
    ELSE CHOOSE i \in matching : \A j \in matching : i <= j

\* Vec::remove(i)
SeqRemoveAt(s, i) == [j \in 1..(Len(s) - 1) |-> IF j < i THEN s[j] ELSE s[j + 1]]

\* EnumIndex::index of the caller's enum
Index(value) == value.variant

(***************************************************************************)
(* World (partition).  A world is the record                               *)
(*   [id, indexes, entities_count, entities, components]                   *)
(* entities   : Uid -> [location : Seq(<<index, Uid>>), name]              *)
(* components : index -> (Uid -> [name, data])                             *)
(* entities_count is a usize; it is kept as the representative of its      *)
(* value modulo 2^64 that is nearest to zero, so -1 stands for usize::MAX  *)
(* (the value a wrapping "0 - 1" leaves).                                  *)
(***************************************************************************)
Out(w, kind, val) == [w |-> w, kind |-> kind, val |-> val]

\* World::new, with the Uid it draws
World_new(id) ==
    [id |-> id,
     indexes |-> Variants,
     entities_count |-> 0,
     entities |-> EmptyMap,
     components |-> [i \in Variants |-> EmptyMap]]

has_component(w, component_id) ==
    \E i \in DOMAIN w.components : component_id \in DOMAIN w.components[i]

has_entity(w, entity_id) == entity_id \in DOMAIN w.entities

\* "+= 1" on the usize count: overflows only at usize::MAX
CountInc(w) ==
    IF build = "debug" /\ w.entities_count = -1
    THEN Out(w, "panic", "overflow")
    ELSE Out([w EXCEPT !.entities_count = @ + 1], "ok", 0)

\* "-= 1" on the usize count: overflows at 0; panics with overflow checks,
\* wraps without
CountDec(w) ==
    IF build = "debug" /\ w.entities_count = 0
    THEN Out(w, "panic", "overflow")
    ELSE Out([w EXCEPT !.entities_count = @ - 1], "ok", 0)

\* World::create_entity, with the Uid it draws
create_entity(w, name, id) ==
    LET w1 == [w EXCEPT !.entities =
                   MapInsert(@, id, [location |-> <<>>, name |-> name])]
        c  == CountInc(w1)
    IN  Out(c.w, c.kind, id)

\* World::set_entity
set_entity(w, id, name) ==
    Out([w EXCEPT !.entities =
             MapInsert(@, id, [location |-> <<>>, name |-> name])],
        "ok", id)

\* the tail shared by add_component_to_entity and set_component_to_entity:
\* insert into the table of the value's index, then push the location pair
\* on the entity (find_any(..).unwrap() panics when the entity is unknown)
InsertAndLocate(w, entity, component, component_name, id) ==
    LET index == Index(component)
        w1 == [w EXCEPT !.components[index] =
                   MapInsert(@, id, [name |-> component_name, data |-> component])]
    IN  IF entity \notin DOMAIN w1.entities
        THEN Out(w1, "panic", "unwrap")
        ELSE Out([w1 EXCEPT !.entities[entity].location =
                      Append(@, <<index, id>>)],
                 "ok", id)

\* World::add_component_to_entity, with the Uid it draws
add_component_to_entity(w, entity, component, component_name, id) ==
    InsertAndLocate(w, entity, component, component_name, id)

\* World::set_component_to_entity
set_component_to_entity(w, entity, component, component_name, component_id) ==
    InsertAndLocate(w, entity, component, component_name, component_id)

\* the tables that hold the id, and the first of them in index order
\* (the scan "for (i, c) in components.iter()"), 0 when there is none
TablesOf(w, component) ==
    {i \in DOMAIN w.components : component \in DOMAIN w.components[i]}

ScanIndex(w, component) ==
    IF TablesOf(w, component) = {}
    THEN 0
    ELSE CHOOSE i \in TablesOf(w, component) :
             \A j \in TablesOf(w, component) : i <= j

\* World::remove_component_from_entity; fresh is the Uid::new() that
\* component_name starts as
remove_component_from_entity(w, entity, component, fresh) ==
    LET index == ScanIndex(w, component)
        component_name ==
            IF TablesOf(w, component) = {} THEN fresh ELSE component
        w1 == [w EXCEPT !.components[index] = MapRemove(@, component_name)]
    IN  IF entity \notin DOMAIN w1.entities
        THEN Out(w1, "panic", "unwrap")
        ELSE LET w2 == [w1 EXCEPT !.entities[entity].location =
                            SelectSeq(@, LAMBDA c : c[2] # component)]
             IN  IF \E k \in 1..Len(w2.entities[entity].location) :
                        w2.entities[entity].location[k][2] = component_name
                 THEN Out(w2, "panic", "assert")
                 ELSE Out(w2, "ok", 0)

\* World::get_components_of_type
get_components_of_type(w, t) == Out(w, "ok", w.components[Index(t)])

\* set_component as it would be if it filed the value under the table of
\* the value's own variant, the way set_component_to_entity does, instead
\* of under the table that holds the id
set_component_by_variant(w, component, data) ==
    LET index == ScanIndex(w, component)
    IN  IF component \notin DOMAIN w.components[index]
        THEN Out(w, "panic", "unwrap")
        ELSE Out([w EXCEPT !.components[Index(data)] =
                      MapInsert(@, component,
                                [name |-> w.components[index][component].name,
                                 data |-> data])],
                 "ok", component)

\* World::set_component
set_component(w, component, data) ==
    LET index == ScanIndex(w, component)
    IN  IF component \notin DOMAIN w.components[index]
        THEN Out(w, "panic", "unwrap")
        ELSE Out([w EXCEPT !.components[index][component].data = data],
                 "ok", component)

\* the loop of remove_entity over the cloned location list
RECURSIVE RemoveLocated(_, _)
RemoveLocated(components, location) ==
    IF location = <<>>
    THEN components
    ELSE RemoveLocated(
             [components EXCEPT ![location[1][1]] = MapRemove(@, location[1][2])],
             Tail(location))

\* remove_entity as it would be without its loop over the location list:
\* the table entries of the entity stay
remove_entity_keeping_components(w, entity) ==
    IF entity \notin DOMAIN w.entities
    THEN Out(w, "err", entity)
    ELSE LET c == CountDec([w EXCEPT !.entities = MapRemove(@, entity)])
         IN  Out(c.w, c.kind, 0)

\* World::remove_entity
remove_entity(w, entity) ==
    IF entity \notin DOMAIN w.entities
    THEN Out(w, "err", entity)
    ELSE LET w1 == [w EXCEPT
                        !.components = RemoveLocated(@, w.entities[entity].location),
                        !.entities = MapRemove(@, entity)]
             c  == CountDec(w1)
         IN  Out(c.w, c.kind, 0)

\* the loop of get_entity_components: <<id, component>> per location pair;
\* ok is FALSE when a pair does not resolve (get(..).unwrap() on None)
RECURSIVE Resolve(_, _)
Resolve(w, location) ==
    IF location = <<>>
    THEN [ok |-> TRUE, list |-> <<>>]
    ELSE LET index == location[1][1]
             component == location[1][2]
             rest == Resolve(w, Tail(location))
         IN  IF component \notin DOMAIN w.components[index] \/ ~rest.ok
             THEN [ok |-> FALSE, list |-> <<>>]
             ELSE [ok |-> TRUE,
                   list |-> <<<<component, w.components[index][component]>>>>
                            \o rest.list]

\* World::get_entity_components
get_entity_components(w, entity) ==
    IF entity \notin DOMAIN w.entities
    THEN Out(w, "panic", "unwrap")
    ELSE LET r == Resolve(w, w.entities[entity].location)
         IN  IF r.ok THEN Out(w, "ok", r.list) ELSE Out(w, "panic", "unwrap")

(***************************************************************************)
(* StarSystem (root store): [worlds : Uid -> World, beings : Seq(Being)].  *)
(* Being              [id, entities, name]                                 *)
(* StarEntity         [location : [world, entity], id, name, properties]   *)
(* StarEntityProperty [name, id, location : [world, entity]]               *)
(***************************************************************************)
SOut(s, kind, val) == [sys |-> s, kind |-> kind, val |-> val]

\* StarSystem::new
StarSystem_new == [worlds |-> EmptyMap, beings |-> <<>>]

\* StarSystem::create_world, with the Uid World::new draws
create_world(s, id) ==
    SOut([s EXCEPT !.worlds = MapInsert(@, id, World_new(id))], "ok", id)

\* StarSystem::conceive_being, with the Uid Being::new draws
conceive_being(s, name, id) ==
    SOut([s EXCEPT !.beings =
              Append(@, [id |-> id, entities |-> <<>>, name |-> name])],
         "ok", id)

\* StarSystem::set_being
set_being(s, id, name) ==
    SOut([s EXCEPT !.beings =
              Append(@, [id |-> id, entities |-> <<>>, name |-> name])],
         "ok", id)

\* beings.iter().find(|b| b.id == id): index of the first being with the id
BeingIdx(s, id) == FirstIdx({n \in 1..Len(s.beings) : s.beings[n].id = id})

\* StarSystem::get_being
get_being(s, id) ==
    IF BeingIdx(s, id) = 0
    THEN SOut(s, "err", id)
    ELSE SOut(s, "ok", s.beings[BeingIdx(s, id)])

\* "if let Some(world) = self.worlds.get_mut(&e.location.world)
\*      { world.remove_entity(e.id.clone()).await.unwrap(); }"
UnwrapRemoveEntity(s, e) ==
    IF e.location.world \notin DOMAIN s.worlds
    THEN SOut(s, "ok", 0)
    ELSE LET r == remove_entity(s.worlds[e.location.world], e.id)
         IN  SOut([s EXCEPT !.worlds[e.location.world] = r.w],
                  IF r.kind = "ok" THEN "ok" ELSE "panic", 0)

\* the loop of kill_being over being.entities
RECURSIVE KillEntities(_, _)
KillEntities(s, entities) ==
    IF entities = <<>>
    THEN SOut(s, "ok", 0)
    ELSE LET r == UnwrapRemoveEntity(s, Head(entities))
         IN  IF r.kind = "panic" THEN r ELSE KillEntities(r.sys, Tail(entities))

\* kill_being as it would be if it dropped the worlds with the last being
kill_being_dropping_worlds(s, id) ==
    LET i == BeingIdx(s, id)
    IN  IF i = 0
        THEN SOut(s, "err", id)
        ELSE LET r == KillEntities(s, s.beings[i].entities)
             IN  IF r.kind = "panic"
                 THEN r
                 ELSE SOut([beings |-> SeqRemoveAt(r.sys.beings, i),
                            worlds |-> IF Len(r.sys.beings) = 1
                                       THEN EmptyMap
                                       ELSE r.sys.worlds],
                           "ok", 0)

\* StarSystem::kill_being
kill_being(s, id) ==
    LET i == BeingIdx(s, id)
    IN  IF i = 0
        THEN SOut(s, "err", id)
        ELSE LET r == KillEntities(s, s.beings[i].entities)
             IN  IF r.kind = "panic"
                 THEN r
                 ELSE SOut([r.sys EXCEPT !.beings = SeqRemoveAt(@, i)], "ok", 0)

\* the first block of constitute_being: drop what the being holds under the
\* name (the entity of the first mirror with the name, every mirror with it)
DropNamed(s, being, entity_name) ==
    LET i == BeingIdx(s, being)
    IN  IF i = 0
        THEN SOut(s, "ok", 0)
        ELSE LET k == FirstIdx({n \in 1..Len(s.beings[i].entities) :
                                    s.beings[i].entities[n].name = entity_name})
                 r == IF k = 0
                      THEN SOut(s, "ok", 0)
                      ELSE UnwrapRemoveEntity(s, s.beings[i].entities[k])
             IN  IF r.kind = "panic"
                 THEN r
                 ELSE SOut([r.sys EXCEPT !.beings[i].entities =
                                SelectSeq(@, LAMBDA e : e.name # entity_name)],
                           "ok", 0)

\* StarSystem::constitute_being.  wid is the Uid a new world gets (drawn only
\* when there is no world), eid the Uid of the new entity, world the world
\* the random draw selects
constitute_being(s, being, entity_name, wid, eid, world) ==
    LET s0 == IF DOMAIN s.worlds = {} THEN create_world(s, wid).sys ELSE s
        r1 == DropNamed(s0, being, entity_name)
    IN  IF r1.kind = "panic"
        THEN r1
        ELSE LET c == create_entity(r1.sys.worlds[world], entity_name, eid)
                 s2 == [r1.sys EXCEPT !.worlds[world] = c.w]
                 entity == [location |-> [world |-> world, entity |-> eid],
                            id |-> eid,
                            name |-> entity_name,
                            properties |-> <<>>]
                 i == BeingIdx(s2, being)
             IN  IF c.kind # "ok"
                 THEN SOut(s2, "panic", "unwrap")
                 ELSE IF i = 0
                      THEN SOut(s2, "ok", eid)
                      ELSE SOut([s2 EXCEPT !.beings[i].entities =
                                     Append(@, entity)],
                                "ok", eid)

\* StarSystem::dissolve_entity
dissolve_entity(s, being, entity) ==
    LET i == BeingIdx(s, being)
    IN  IF i = 0
        THEN SOut(s, "ok", 0)
        ELSE LET k == FirstIdx({n \in 1..Len(s.beings[i].entities) :
                                    s.beings[i].entities[n].id = entity})
                 r == IF k = 0
                      THEN SOut(s, "ok", 0)
                      ELSE UnwrapRemoveEntity(s, s.beings[i].entities[k])
             IN  IF r.kind = "panic"
                 THEN r
                 ELSE SOut([r.sys EXCEPT !.beings[i].entities =
                                SelectSeq(@, LAMBDA e : e.id # entity)],
                           "ok", 0)

\* the path being -> entity mirror -> world that add_property and
\* set_property resolve: <<i, k>>, <<0, 0>> when it does not resolve
Path(s, being, entity) ==
    LET i == BeingIdx(s, being)
        k == IF i = 0
             THEN 0
             ELSE FirstIdx({n \in 1..Len(s.beings[i].entities) :
                                s.beings[i].entities[n].id = entity})
    IN  IF k # 0 /\ s.beings[i].entities[k].location.world \in DOMAIN s.worlds
        THEN <<i, k>>
        ELSE <<0, 0>>

\* StarSystem::add_property, with the Uid add_component_to_entity draws
add_property(s, being, entity, property, property_name, id) ==
    LET i == Path(s, being, entity)[1]
        k == Path(s, being, entity)[2]
    IN  IF i = 0
        THEN SOut(s, "err", "Could not add property to entity")
        ELSE LET wid == s.beings[i].entities[k].location.world
                 r == add_component_to_entity(s.worlds[wid], entity, property,
                                              property_name, id)
                 s1 == [s EXCEPT !.worlds[wid] = r.w]
                 prop == [name |-> property_name,
                          id |-> id,
                          location |-> [world |-> wid, entity |-> id]]
             IN  IF r.kind # "ok"
                 THEN SOut(s1, "panic", "unwrap")
                 ELSE SOut([s1 EXCEPT !.beings[i].entities[k].properties =
                                Append(@, prop)],
                           "ok", id)

\* "for p in e.properties.iter_mut() { if p.id == property { p.name = name;
\*  break; } }"
RenameFirst(properties, property, name) ==
    LET j == FirstIdx({n \in 1..Len(properties) : properties[n].id = property})
    IN  IF j = 0 THEN properties ELSE [properties EXCEPT ![j].name = name]

\* StarSystem::set_property
set_property(s, being, entity, property, value, name) ==
    LET i == Path(s, being, entity)[1]
        k == Path(s, being, entity)[2]
    IN  IF i = 0
        THEN SOut(s, "panic", "unwrap")
        ELSE LET wid == s.beings[i].entities[k].location.world
                 r == set_component_to_entity(s.worlds[wid], entity, value,
                                              name, property)
                 s1 == [s EXCEPT !.worlds[wid] = r.w]
             IN  IF r.kind # "ok"
                 THEN SOut(s1, "panic", "unwrap")
                 ELSE SOut([s1 EXCEPT !.beings[i].entities[k].properties =
                                RenameFirst(@, property, name)],
                           "ok", r.val)

\* whether the entity mirror holds a property mirror with the id
Mirrors(e, property) ==
    \E j \in 1..Len(e.properties) : e.properties[j].id = property

\* the outer loop of remove_property, from being i on: in each being the
\* first entity mirror that holds the property is handled ("break" leaves the
\* loop over the being's entities only)
RECURSIVE RemovePropertyFrom(_, _, _, _)
RemovePropertyFrom(s, i, property, fresh) ==
    IF i > Len(s.beings)
    THEN SOut(s, "ok", 0)
    ELSE LET k == FirstIdx({n \in 1..Len(s.beings[i].entities) :
                                Mirrors(s.beings[i].entities[n], property)})
         IN  IF k = 0
             THEN RemovePropertyFrom(s, i + 1, property, fresh)
             ELSE LET e == s.beings[i].entities[k]
                      wid == e.location.world
                      r == IF wid \in DOMAIN s.worlds
                           THEN remove_component_from_entity(
                                    s.worlds[wid], e.id, property, fresh)
                           ELSE Out(0, "ok", 0)
                      s1 == IF wid \in DOMAIN s.worlds
                            THEN [s EXCEPT !.worlds[wid] = r.w]
                            ELSE s
                  IN  IF r.kind # "ok"
                      THEN SOut(s1, "panic", "unwrap")
                      ELSE RemovePropertyFrom(
                               [s1 EXCEPT !.beings[i].entities[k].properties =
                                    SelectSeq(@, LAMBDA p : p.id # property)],
                               i + 1, property, fresh)

\* StarSystem::remove_property; fresh is the Uid the World draws for its
\* component_name (never stored)
remove_property(s, property, fresh) == RemovePropertyFrom(s, 1, property, fresh)

\* the world "self.worlds.iter_mut().find(|w| w.1.has_component(..))" finds:
\* the first in key order
WorldsWith(s, property_id) ==
    {w \in DOMAIN s.worlds : has_component(s.worlds[w], property_id)}

\* StarSystem::set_property_by_id
set_property_by_id(s, property_id, property_value) ==
    IF WorldsWith(s, property_id) = {}
    THEN SOut(s, "ok", property_id)
    ELSE LET wid == CHOOSE w \in WorldsWith(s, property_id) :
                        \A v \in WorldsWith(s, property_id) : w <= v
             r == set_component(s.worlds[wid], property_id, property_value)
         IN  SOut([s EXCEPT !.worlds[wid] = r.w],
                  IF r.kind = "ok" THEN "ok" ELSE "panic", property_id)

(***************************************************************************)
(* Snapshot protocol.  A snapshot is a Vec<AscendedBeing>:                 *)
(* AscendedBeing [name, id, entities], AscendedEntity [name, id,           *)
(* components], AscendedComponent [name, id, data].                        *)
(***************************************************************************)
\* the property mirrors develop_being builds from a snapshot's components
MirrorsOf(components, world, ent) ==
    [j \in 1..Len(components) |->
        [name |-> components[j].name,
         id |-> components[j].id,
         location |-> [world |-> world, entity |-> ent]]]

\* the loop of develop_being over ascended_being.entities
RECURSIVE DevelopEntities(_, _, _, _)
DevelopEntities(s, being, world, ents) ==
    IF ents = <<>>
    THEN SOut(s, "ok", <<>>)
    ELSE LET e == Head(ents)
             r == set_entity(s.worlds[world], e.id, e.name)
             ent == r.val
             s1 == [s EXCEPT !.worlds[world] = r.w]
             entity == [location |-> [world |-> world, entity |-> ent],
                        id |-> ent,
                        name |-> e.name,
                        properties |-> <<>>]
             i == BeingIdx(s1, being)
             s2 == IF i = 0
                   THEN s1
                   ELSE [s1 EXCEPT !.beings[i].entities = Append(@, entity)]
             k == IF i = 0
                  THEN 0
                  ELSE FirstIdx({n \in 1..Len(s2.beings[i].entities) :
                                     s2.beings[i].entities[n].id = ent})
             s3 == IF k = 0
                   THEN s2
                   ELSE [s2 EXCEPT !.beings[i].entities[k].properties =
                             MirrorsOf(e.components, world, ent)]
             rest == DevelopEntities(s3, being, world, Tail(ents))
         IN  SOut(rest.sys, rest.kind, <<ent>> \o rest.val)

\* the loop of develop_being over ascended_beings
RECURSIVE DevelopBeings(_, _, _, _)
DevelopBeings(s, being, world, ascended_beings) ==
    IF ascended_beings = <<>>
    THEN SOut(s, "ok", <<>>)
    ELSE IF get_being(s, being).kind # "ok"
         THEN SOut(s, "panic", "unwrap")
         ELSE LET r == DevelopEntities(s, being, world,
                                       Head(ascended_beings).entities)
                  rest == DevelopBeings(r.sys, being, world,
                                        Tail(ascended_beings))
              IN  SOut(rest.sys, rest.kind, r.val \o rest.val)

\* StarSystem::develop_being.  wid is the Uid a new world gets (drawn only
\* when there is no world), world the world the random draws select
develop_being(s, being, ascended_beings, wid, world) ==
    LET s0 == IF DOMAIN s.worlds = {} THEN create_world(s, wid).sys ELSE s
    IN  DevelopBeings(s0, being, world, ascended_beings)

\* the loop of ascend_being over b.entities
RECURSIVE AscendEntities(_, _)
AscendEntities(s, entities) ==
    IF entities = <<>>
    THEN [ok |-> TRUE, list |-> <<>>]
    ELSE LET entity == Head(entities)
             wid == entity.location.world
             r == IF wid \in DOMAIN s.worlds
                  THEN get_entity_components(s.worlds[wid], entity.id)
                  ELSE Out(0, "panic", "unwrap")
             rest == AscendEntities(s, Tail(entities))
         IN  IF r.kind # "ok" \/ ~rest.ok
             THEN [ok |-> FALSE, list |-> <<>>]
             ELSE [ok |-> TRUE,
                   list |-> <<[name |-> entity.name,
                               id |-> entity.id,
                               components |->
                                   [j \in 1..Len(r.val) |->
                                       [name |-> r.val[j][2].name,
                                        id |-> r.val[j][1],
                                        data |-> r.val[j][2].data]]]>>
                            \o rest.list]

\* the loop of ascend_being over self.beings
RECURSIVE AscendBeings(_, _, _)
AscendBeings(s, beings, being) ==
    IF beings = <<>>
    THEN [ok |-> TRUE, list |-> <<>>]
    ELSE LET b == Head(beings)
             rest == AscendBeings(s, Tail(beings), being)
             r == AscendEntities(s, b.entities)
         IN  IF b.id # being
             THEN rest
             ELSE IF ~r.ok \/ ~rest.ok
                  THEN [ok |-> FALSE, list |-> <<>>]
                  ELSE [ok |-> TRUE,
                        list |-> <<[name |-> b.name, id |-> b.id,
                                    entities |-> r.list]>> \o rest.list]

\* StarSystem::ascend_being
ascend_being(s, being) ==
    LET r == AscendBeings(s, s.beings, being)
    IN  IF r.ok THEN SOut(s, "ok", r.list) ELSE SOut(s, "panic", "unwrap")

(***************************************************************************)
(* The state machine of a StarSystem driven through its public operations. *)
(*   sys     the StarSystem                                                *)
(*   nextUid the next value Uid::new() returns (fresh, never reused)       *)
(*   panicked whether a call has panicked                                  *)
(*   build   whether the build checks arithmetic overflow                  *)
(* A panic ends the behaviour: no call follows it.                         *)
(***************************************************************************)
Range(f) == {f[x] : x \in DOMAIN f}

\* identifiers a caller knows of: those the store has handed out or holds
BeingIds(s) == {s.beings[i].id : i \in 1..Len(s.beings)}

EntityMirrors(s) ==
    UNION {Range(s.beings[i].entities) : i \in 1..Len(s.beings)}

EntityIds(s) ==
    {e.id : e \in EntityMirrors(s)}
    \cup UNION {DOMAIN s.worlds[w].entities : w \in DOMAIN s.worlds}

LocatedIds(w) ==
    UNION {{w.entities[e].location[j][2] :
                j \in 1..Len(w.entities[e].location)} : e \in DOMAIN w.entities}

TableIds(w) == UNION {DOMAIN w.components[i] : i \in DOMAIN w.components}

PropertyIds(s) ==
    UNION {{p.id : p \in Range(e.properties)} : e \in EntityMirrors(s)}
    \cup UNION {TableIds(s.worlds[w]) \cup LocatedIds(s.worlds[w]) :
                    w \in DOMAIN s.worlds}

\* the being ids a caller passes: every id of a being, and one of none
BeingArgs(s) == BeingIds(s) \cup ForeignUids

\* the ids a caller passes to create under: one in use, or one Uid::new()
\* has not returned to this store (counted as drawn)
NewUids(u) == {u}

\* the entity ids a caller passes along with a being id: the ids of the
\* mirrors the being found under that id holds, and one it does not hold
\* (the operations look the entity up among those mirrors only)
EntityArgs(s, being) ==
    (IF BeingIdx(s, being) = 0
     THEN {}
     ELSE {e.id : e \in Range(s.beings[BeingIdx(s, being)].entities)})
    \cup ForeignUids

\* the property ids a caller passes
PropertyArgs(s) == PropertyIds(s) \cup ForeignUids

\* the bounds of the model on a store
Bounded(s) ==
    /\ Len(s.beings) <= MaxBeings
    /\ \A i \in 1..Len(s.beings) :
          /\ Len(s.beings[i].entities) <= MaxEntities
          /\ \A k \in 1..Len(s.beings[i].entities) :
                Len(s.beings[i].entities[k].properties) <= MaxLoc
    /\ \A w \in DOMAIN s.worlds : \A e \in DOMAIN s.worlds[w].entities :
          Len(s.worlds[w].entities[e].location) <= MaxLoc

\* the world a call that creates a world when there is none can draw
WorldDraws(s) == IF DOMAIN s.worlds = {} THEN {nextUid} ELSE DOMAIN s.worlds

\* the number of Uids such a call draws for the world
WorldUids(s) == IF DOMAIN s.worlds = {} THEN 1 ELSE 0

\* the snapshots a caller passes to develop_being: what ascend_being returns
\* for a being of the store as it is, and a snapshot that comes from another
\* store: one entity with at most one component, under Uids this store has
\* never seen (u is the first of them; the being's id, which develop_being
\* does not read, is a foreign one)
StoreSnapshots(s) ==
    {ascend_being(s, b).val :
         b \in {x \in BeingIds(s) : ascend_being(s, x).kind = "ok"}}

ForeignSnapshots(u) ==
    {<<[name |-> bn, id |-> f,
        entities |-> <<[name |-> n, id |-> u, components |-> <<>>]>>]>> :
        bn \in BeingNames, f \in ForeignUids, n \in Names}
    \cup
    {<<[name |-> bn, id |-> f,
        entities |-> <<[name |-> n, id |-> u,
                        components |-> <<[name |-> cn, id |-> u + 1,
                                          data |-> v]>>]>>]>> :
        bn \in BeingNames, f \in ForeignUids, n \in Names, cn \in CompNames,
        v \in Values}

\* the Uids of another store that a snapshot carries (counted as drawn)
SnapshotUids(snapshot, u) ==
    IF snapshot \in ForeignSnapshots(u)
    THEN 1 + Len(snapshot[1].entities[1].components)
    ELSE 0

\* a call with outcome o that drew used fresh Uids, of at most cap
Call(o, used, cap) ==
    /\ ~panicked
    /\ nextUid + used - 1 <= cap + Cardinality(DOMAIN o.sys.worlds)
    /\ o.kind = "panic" \/ Bounded(o.sys)
    /\ sys' = o.sys
    /\ nextUid' = nextUid + used
    /\ panicked' = (o.kind = "panic")
    /\ UNCHANGED <<build, threads>>

Init ==
    /\ sys = StarSystem_new
    /\ nextUid = 1
    /\ panicked = FALSE
    /\ build \in Builds
    /\ NoThreads

ConceiveBeing(cap) ==
    \E name \in BeingNames :
        Call(conceive_being(sys, name, nextUid), 1, cap)

SetBeing(cap) ==
    \E id \in BeingIds(sys) \cup NewUids(nextUid), name \in BeingNames :
        Call(set_being(sys, id, name),
             IF id \in NewUids(nextUid) THEN 1 ELSE 0, cap)

KillBeing(cap) ==
    \E id \in BeingArgs(sys) :
        Call(kill_being(sys, id), 0, cap)

ConstituteBeing(cap) ==
    \E being \in BeingArgs(sys), name \in Names, world \in WorldDraws(sys) :
        Call(constitute_being(sys, being, name, nextUid,
                              nextUid + WorldUids(sys), world),
             WorldUids(sys) + 1, cap)

DissolveEntity(cap) ==
    \E being \in BeingArgs(sys) : \E entity \in EntityArgs(sys, being) :
        Call(dissolve_entity(sys, being, entity), 0, cap)

AddProperty(cap) ==
    \E being \in BeingArgs(sys), value \in Values, name \in CompNames :
        \E entity \in EntityArgs(sys, being) :
            Call(add_property(sys, being, entity, value, name, nextUid),
                 IF Path(sys, being, entity)[1] = 0 THEN 0 ELSE 1, cap)

SetProperty(cap) ==
    \E being \in BeingArgs(sys),
       property \in PropertyIds(sys) \cup NewUids(nextUid),
       value \in Values, name \in CompNames :
        \E entity \in EntityArgs(sys, being) :
            Call(set_property(sys, being, entity, property, value, name),
                 IF property \in NewUids(nextUid) THEN 1 ELSE 0, cap)

RemoveProperty(cap) ==
    \E property \in PropertyArgs(sys) :
        Call(remove_property(sys, property, nextUid), 0, cap)

SetPropertyById(cap) ==
    \E property \in PropertyArgs(sys), value \in Values :
        Call(set_property_by_id(sys, property, value), 0, cap)

DevelopBeing(cap) ==
    \E being \in BeingArgs(sys), world \in WorldDraws(sys) :
        \E snapshot \in StoreSnapshots(sys)
                        \cup ForeignSnapshots(nextUid + WorldUids(sys)) :
            Call(develop_being(sys, being, snapshot, nextUid, world),
                 WorldUids(sys)
                 + SnapshotUids(snapshot, nextUid + WorldUids(sys)), cap)

AscendBeing(cap) ==
    \E being \in BeingArgs(sys) :
        Call(ascend_being(sys, being), 0, cap)

\* every operation of the StarSystem
Next ==
    \/ ConceiveBeing(MaxUid)
    \/ SetBeing(MaxUid)
    \/ KillBeing(MaxUid)
    \/ ConstituteBeing(MaxUid)
    \/ DissolveEntity(MaxUid)
    \/ AddProperty(MaxUid)
    \/ SetProperty(MaxUid)
    \/ RemoveProperty(MaxUid)
    \/ SetPropertyById(MaxUid)
    \/ DevelopBeing(MaxUid)
    \/ AscendBeing(MaxUid)

Spec == Init /\ [][Next]_vars

\* the operations that conceive a being, attach entities and add, update and
\* remove properties
NextAttach ==
    \/ ConceiveBeing(MaxAttachUid)
    \/ ConstituteBeing(MaxAttachUid)
    \/ AddProperty(MaxAttachUid)
    \/ SetProperty(MaxAttachUid)
    \/ RemoveProperty(MaxAttachUid)

SpecAttach == Init /\ [][NextAttach]_vars

\* the same operations and dissolve_entity
NextDetach ==
    \/ ConceiveBeing(MaxAttachUid)
    \/ ConstituteBeing(MaxAttachUid)
    \/ AddProperty(MaxAttachUid)
    \/ SetProperty(MaxAttachUid)
    \/ RemoveProperty(MaxAttachUid)
    \/ DissolveEntity(MaxAttachUid)

SpecDetach == Init /\ [][NextDetach]_vars

(***************************************************************************)
(* The state machine of a single World driven through its own operations   *)
(* (World and StarSystem::worlds are public).  sys holds the world and no  *)
(* being.                                                                  *)
(***************************************************************************)
\* the world of a store that holds one
TheWorld(s) == s.worlds[CHOOSE w \in DOMAIN s.worlds : TRUE]

\* a call on the world with outcome o (a World outcome)
WorldCall(o, used) ==
    Call(SOut([sys EXCEPT !.worlds[TheWorld(sys).id] = o.w], o.kind, o.val),
         used, MaxWorldUid)

\* the entity and component ids a caller of the World passes
WorldEntityArgs(w) == DOMAIN w.entities \cup ForeignUids

WorldComponentArgs(w) == TableIds(w) \cup LocatedIds(w) \cup ForeignUids

InitWorld ==
    /\ sys = create_world(StarSystem_new, 1).sys
    /\ nextUid = 2
    /\ panicked = FALSE
    /\ build \in Builds
    /\ NoThreads

WCreateEntity ==
    \E name \in Names :
        WorldCall(create_entity(TheWorld(sys), name, nextUid), 1)

WSetEntity ==
    \E id \in DOMAIN TheWorld(sys).entities \cup NewUids(nextUid),
       name \in Names :
        WorldCall(set_entity(TheWorld(sys), id, name),
                  IF id \in NewUids(nextUid) THEN 1 ELSE 0)

WAddComponentToEntity ==
    \E entity \in WorldEntityArgs(TheWorld(sys)), value \in Values,
       name \in CompNames :
        WorldCall(add_component_to_entity(TheWorld(sys), entity, value, name,
                                          nextUid), 1)

WSetComponentToEntity ==
    \E entity \in WorldEntityArgs(TheWorld(sys)),
       id \in TableIds(TheWorld(sys)) \cup NewUids(nextUid),
       value \in Values, name \in CompNames :
        WorldCall(set_component_to_entity(TheWorld(sys), entity, value, name, id),
                  IF id \in NewUids(nextUid) THEN 1 ELSE 0)

WRemoveComponentFromEntity ==
    \E entity \in WorldEntityArgs(TheWorld(sys)),
       component \in WorldComponentArgs(TheWorld(sys)) :
        WorldCall(remove_component_from_entity(TheWorld(sys), entity, component,
                                               nextUid), 0)

WSetComponent ==
    \E component \in WorldComponentArgs(TheWorld(sys)), value \in Values :
        WorldCall(set_component(TheWorld(sys), component, value), 0)

WRemoveEntity ==
    \E entity \in WorldEntityArgs(TheWorld(sys)) :
        WorldCall(remove_entity(TheWorld(sys), entity), 0)

WGetEntityComponents ==
    \E entity \in WorldEntityArgs(TheWorld(sys)) :
        WorldCall(get_entity_components(TheWorld(sys), entity), 0)

NextWorld ==
    \/ WCreateEntity
    \/ WSetEntity
    \/ WAddComponentToEntity
    \/ WSetComponentToEntity
    \/ WRemoveComponentFromEntity
    \/ WSetComponent
    \/ WRemoveEntity
    \/ WGetEntityComponents

SpecWorld == InitWorld /\ [][NextWorld]_vars

(***************************************************************************)
(* Threads on one World.  World derives Clone and its fields are           *)
(* Arc<Mutex<..>>: clones share the registry, the live count and the       *)
(* tables, and each thread calls the methods on its own clone.  A call is  *)
(* a sequence of statements; a statement that locks a mutex holds the      *)
(* guard, a temporary, to its end.  A thread takes a step to lock the      *)
(* mutex of its next statement (Acquire) and a step to run the statement   *)
(* and drop the guard (Section).  A panic while a guard is held poisons    *)
(* the mutex, and lock().unwrap() on a poisoned mutex panics.              *)
(***************************************************************************)
\* the position of a thread after its call has started: the statement it is
\* at, by method
FirstLabel(op) ==
    CASE op \in {"create_entity", "set_entity", "add_component_to_entity",
                 "set_component_to_entity", "set_components"} -> "insert"
      [] op \in {"remove_component_from_entity", "set_component"} -> "clone"
      [] op \in {"remove_entity", "get_entity_components"} -> "find"
      [] OTHER -> "read"

\* the mutex the statement at a position locks
LockOf(op, label) ==
    CASE op \in {"create_entity", "remove_entity"} /\ label = "count"
             -> "entities_count"
      [] op \in {"create_entity", "set_entity"} /\ label = "insert"
             -> "entities"
      [] label \in {"locate", "retain", "assert", "find"} -> "entities"
      [] op = "has_entity" -> "entities"
      [] OTHER -> "components"

\* the guards a thread would still hold after a statement if each guard
\* were bound by a let and lived to the end of the call
KeepsToReturn(op, label) == Locks

\* the guards a thread still holds when it has run the statement at a
\* position: none, every guard is a temporary of its statement
Keeps(op, label) == {}

\* the outcome of a statement: the world, the thread's frame, its next
\* position ("done" after the return, "panicked" after a panic) and whether
\* the panic came while the guard was alive
Go(w, f, label) == [w |-> w, f |-> f, pc |-> label, poison |-> FALSE]

\* a panic inside the statement, an unwrap() on None or an arithmetic
\* overflow: the guard is dropped by the unwinding
Panic(w, f) == [w |-> w, f |-> f, pc |-> "panicked", poison |-> TRUE]

\* a failed assert!: its condition, and the guard in it, is over before
\* the panic
AssertFailed(w, f) == [w |-> w, f |-> f, pc |-> "panicked", poison |-> FALSE]

Return(w, f, res) == Go(w, [f EXCEPT !.res = res], "done")

\* World::create_entity
RunCreateEntity(w, f, label) ==
    IF label = "insert"
    THEN Go([w EXCEPT !.entities =
                 MapInsert(@, f.id, [location |-> <<>>, name |-> f.name])],
            f, "count")
    ELSE IF CountInc(w).kind = "panic"
         THEN Panic(w, f)
         ELSE Return(CountInc(w).w, f, "ok")

\* World::set_entity
RunSetEntity(w, f, label) ==
    Return([w EXCEPT !.entities =
                MapInsert(@, f.id, [location |-> <<>>, name |-> f.name])],
           f, "ok")

\* add_component_to_entity as it would be if it looked for the entity
\* before its insert and returned Err, with nothing inserted, when there
\* is none
RunInsertAndLocateChecked(w, f, label) ==
    IF label = "insert"
    THEN IF f.entity \notin DOMAIN w.entities
         THEN Return(w, f, "err")
         ELSE Go([w EXCEPT !.components[Index(f.value)] =
                      MapInsert(@, f.id, [name |-> f.name, data |-> f.value])],
                 f, "locate")
    ELSE IF f.entity \notin DOMAIN w.entities
         THEN Panic(w, f)
         ELSE Return([w EXCEPT !.entities[f.entity].location =
                          Append(@, <<Index(f.value), f.id>>)],
                     f, "ok")

\* World::add_component_to_entity and World::set_component_to_entity
RunInsertAndLocate(w, f, label) ==
    IF label = "insert"
    THEN Go([w EXCEPT !.components[Index(f.value)] =
                 MapInsert(@, f.id, [name |-> f.name, data |-> f.value])],
            f, "locate")
    ELSE IF f.entity \notin DOMAIN w.entities
         THEN Panic(w, f)
         ELSE Return([w EXCEPT !.entities[f.entity].location =
                          Append(@, <<Index(f.value), f.id>>)],
                     f, "ok")

\* World::remove_component_from_entity; f.key is component_name, a new Uid
\* until the scan of the cloned tables finds the component
RunRemoveComponentFromEntity(w, f, label) ==
    CASE label = "clone" ->
             Go(w, [f EXCEPT !.index = ScanIndex(w, f.id),
                             !.key = IF TablesOf(w, f.id) = {} THEN @ ELSE f.id],
                "remove")
      [] label = "remove" ->
             Go([w EXCEPT !.components[f.index] = MapRemove(@, f.key)],
                f, "retain")
      [] label = "retain" ->
             IF f.entity \notin DOMAIN w.entities
             THEN Panic(w, f)
             ELSE Go([w EXCEPT !.entities[f.entity].location =
                          SelectSeq(@, LAMBDA c : c[2] # f.id)],
                     f, "assert")
      [] OTHER ->
             IF f.entity \notin DOMAIN w.entities
             THEN Panic(w, f)
             ELSE IF \E k \in 1..Len(w.entities[f.entity].location) :
                         w.entities[f.entity].location[k][2] = f.key
                  THEN AssertFailed(w, f)
                  ELSE Return(w, f, "ok")

\* World::set_components, with a table of one component
RunSetComponents(w, f, label) ==
    Return([w EXCEPT !.components[Index(f.value)] =
                MapInsert(EmptyMap, f.id, [name |-> f.name, data |-> f.value])],
           f, "ok")

\* World::set_component; f.got holds the clone of the component
RunSetComponent(w, f, label) ==
    CASE label = "clone" ->
             Go(w, [f EXCEPT !.index = ScanIndex(w, f.id)], "get")
      [] label = "get" ->
             IF f.id \notin DOMAIN w.components[f.index]
             THEN Panic(w, f)
             ELSE Go(w, [f EXCEPT !.got = <<w.components[f.index][f.id]>>],
                     "put")
      [] OTHER ->
             Return([w EXCEPT !.components[f.index] =
                         MapInsert(@, f.id, [name |-> f.got[1].name,
                                             data |-> f.value])],
                    [f EXCEPT !.got = <<>>], "ok")

\* World::remove_entity; f.todo is what is left of the clone's location
RunRemoveEntity(w, f, label) ==
    CASE label = "find" ->
             IF f.entity \notin DOMAIN w.entities
             THEN Return(w, f, "err")
             ELSE Go(w, [f EXCEPT !.todo = w.entities[f.entity].location],
                     IF w.entities[f.entity].location = <<>>
                     THEN "retain" ELSE "components")
      [] label = "components" ->
             Go([w EXCEPT !.components[f.todo[1][1]] =
                     MapRemove(@, f.todo[1][2])],
                [f EXCEPT !.todo = Tail(@)],
                IF Len(f.todo) = 1 THEN "retain" ELSE "components")
      [] label = "retain" ->
             Go([w EXCEPT !.entities = MapRemove(@, f.entity)], f, "count")
      [] OTHER ->
             IF CountDec(w).kind = "panic"
             THEN Panic(w, f)
             ELSE Return(CountDec(w).w, f, "ok")

\* World::get_entity_components; f.got is the Vec it builds
RunGetEntityComponents(w, f, label) ==
    IF label = "find"
    THEN IF f.entity \notin DOMAIN w.entities
         THEN Panic(w, f)
         ELSE IF w.entities[f.entity].location = <<>>
              THEN Return(w, f, "ok")
              ELSE Go(w, [f EXCEPT !.todo = w.entities[f.entity].location],
                      "resolve")
    ELSE IF f.todo[1][2] \notin DOMAIN w.components[f.todo[1][1]]
         THEN Panic(w, f)
         ELSE LET g == [f EXCEPT
                            !.got = Append(@, <<f.todo[1][2],
                                       w.components[f.todo[1][1]][f.todo[1][2]]>>),
                            !.todo = Tail(@)]
              IN  IF g.todo = <<>> THEN Return(w, g, "ok")
                                   ELSE Go(w, g, "resolve")

\* World::has_component, World::has_entity, World::get_components_of_type
RunRead(w, f, label) ==
    Return(w, f,
           CASE f.op = "has_component" ->
                    IF has_component(w, f.id) THEN "true" ELSE "false"
             [] f.op = "has_entity" ->
                    IF has_entity(w, f.entity) THEN "true" ELSE "false"
             [] OTHER -> "ok")

\* the statement of a thread at a position
Run(w, f, label) ==
    CASE f.op = "create_entity" -> RunCreateEntity(w, f, label)
      [] f.op = "set_entity" -> RunSetEntity(w, f, label)
      [] f.op \in {"add_component_to_entity", "set_component_to_entity"}
             -> RunInsertAndLocate(w, f, label)
      [] f.op = "remove_component_from_entity"
             -> RunRemoveComponentFromEntity(w, f, label)
      [] f.op = "set_components" -> RunSetComponents(w, f, label)
      [] f.op = "set_component" -> RunSetComponent(w, f, label)
      [] f.op = "remove_entity" -> RunRemoveEntity(w, f, label)
      [] f.op = "get_entity_components" -> RunGetEntityComponents(w, f, label)
      [] OTHER -> RunRead(w, f, label)

\* the calls a thread can make on the world, with the Uid a call draws
\* (create_entity and add_component_to_entity for the new id,
\* remove_component_from_entity for component_name)
ThreadCalls(w, uid) ==
    LET none == [variant |-> 0, data |-> 1]
    IN  {Frame("create_entity", 0, uid, none, name) : name \in Names}
        \cup {Frame("set_entity", 0, id, none, name) :
                  id \in DOMAIN w.entities, name \in Names}
        \cup {Frame("add_component_to_entity", entity, uid, value, name) :
                  entity \in WorldEntityArgs(w), value \in Values,
                  name \in CompNames}
        \cup {Frame("set_component_to_entity", entity, id, value, name) :
                  entity \in WorldEntityArgs(w), id \in TableIds(w),
                  value \in Values, name \in CompNames}
        \cup {[Frame("remove_component_from_entity", entity, component, none, "a")
                   EXCEPT !.key = uid] :
                  entity \in WorldEntityArgs(w),
                  component \in WorldComponentArgs(w)}
        \cup {Frame("get_components_of_type", 0, 0, value, "a") :
                  value \in Values}
        \cup {Frame("set_components", 0, id, value, name) :
                  id \in TableIds(w), value \in Values, name \in CompNames}
        \cup {Frame("set_component", 0, component, value, "a") :
                  component \in WorldComponentArgs(w), value \in Values}
        \cup {Frame("remove_entity", entity, 0, none, "a") :
                  entity \in WorldEntityArgs(w)}
        \cup {Frame("get_entity_components", entity, 0, none, "a") :
                  entity \in WorldEntityArgs(w)}
        \cup {Frame("has_component", 0, component, none, "a") :
                  component \in WorldComponentArgs(w)}
        \cup {Frame("has_entity", entity, 0, none, "a") :
                  entity \in WorldEntityArgs(w)}

DrawsUid(op) ==
    op \in {"create_entity", "add_component_to_entity",
            "remove_component_from_entity"}

\* a thread is inside a call: at a statement, before or after locking
Running(t) == pc[t] \notin {"idle", "done", "panicked"}

\* the mutex of the statement the thread is at
Wanted(t) == LockOf(frame[t].op, pc[t])

HeldBy(t) == {l \in Locks : owner[l] = t}

\* a thread calls a method of its clone of the world
Start(t) ==
    /\ pc[t] = "idle"
    /\ \E f \in ThreadCalls(TheWorld(sys), nextUid) :
           /\ frame' = [frame EXCEPT ![t] = f]
           /\ pc' = [pc EXCEPT ![t] = FirstLabel(f.op)]
           /\ nextUid' = IF DrawsUid(f.op) THEN nextUid + 1 ELSE nextUid
    /\ UNCHANGED <<sys, panicked, build, owner, poisoned>>

\* lock(): waits while the mutex is held (a std Mutex is not reentrant: by
\* its own thread too); unwrap() panics when the mutex is poisoned
Acquire(t) ==
    /\ Running(t)
    /\ ~frame[t].locked
    /\ owner[Wanted(t)] = 0
    /\ IF Wanted(t) \in poisoned
       THEN /\ pc' = [pc EXCEPT ![t] = "panicked"]
            /\ owner' = [l \in Locks |-> IF owner[l] = t THEN 0 ELSE owner[l]]
            /\ poisoned' = poisoned \cup HeldBy(t)
            /\ UNCHANGED frame
       ELSE /\ owner' = [owner EXCEPT ![Wanted(t)] = t]
            /\ frame' = [frame EXCEPT ![t].locked = TRUE]
            /\ UNCHANGED <<pc, poisoned>>
    /\ UNCHANGED <<sys, nextUid, panicked, build>>

\* the statement under the guard, then the drop of the guard
Section(t) ==
    /\ Running(t)
    /\ frame[t].locked
    /\ LET o == Run(TheWorld(sys), frame[t], pc[t])
           kept == IF o.pc \in {"done", "panicked"}
                   THEN {}
                   ELSE Keeps(frame[t].op, pc[t])
       IN  /\ sys' = [sys EXCEPT !.worlds[TheWorld(sys).id] = o.w]
           /\ frame' = [frame EXCEPT ![t] = [o.f EXCEPT !.locked = FALSE]]
           /\ pc' = [pc EXCEPT ![t] = o.pc]
           /\ owner' = [l \in Locks |->
                           IF owner[l] = t /\ l \notin kept THEN 0 ELSE owner[l]]
           /\ poisoned' = IF o.poison THEN poisoned \cup HeldBy(t) ELSE poisoned
    /\ UNCHANGED <<nextUid, panicked, build>>

\* a world with one entity that has one component, and every thread idle
InitThreads ==
    /\ build \in Builds
    /\ sys = [worlds |-> 1 :> add_component_to_entity(
                                  create_entity(World_new(1), "a", 2).w,
                                  2, [variant |-> 0, data |-> 1], "a", 3).w,
              beings |-> <<>>]
    /\ nextUid = 4
    /\ panicked = FALSE
    /\ NoThreads

NextThreads == \E t \in Threads : Start(t) \/ Acquire(t) \/ Section(t)

SpecThreads == InitThreads /\ [][NextThreads]_vars

(***************************************************************************)
(* Properties.                                                             *)
(***************************************************************************)
\* the ids of a mirror's property list, in list order
MirrorPropertyIds(e) == [j \in 1..Len(e.properties) |-> e.properties[j].id]

\* the ids of an entity's location list, in list order
LocationIds(w, entity) ==
    [j \in 1..Len(w.entities[entity].location) |->
        w.entities[entity].location[j][2]]

NoDuplicates(seq) ==
    \A j, k \in 1..Len(seq) : seq[j] = seq[k] => j = k

\* the mirror and the entity behind it list the same property ids, each once
MirrorMatchesEntity(s, e) ==
    /\ e.location.world \in DOMAIN s.worlds
    /\ has_entity(s.worlds[e.location.world], e.id)
    /\ MirrorPropertyIds(e) = LocationIds(s.worlds[e.location.world], e.id)
    /\ NoDuplicates(MirrorPropertyIds(e))
    /\ NoDuplicates(LocationIds(s.worlds[e.location.world], e.id))

\* C1 (I2): after any sequence of constitute_being, add_property, set_property
\* and remove_property calls that completed, every entity mirror lists exactly
\* the property ids of its world entity's location list, none of them twice.
C1_MirrorTableConsistency ==
    ~panicked => \A e \in EntityMirrors(sys) : MirrorMatchesEntity(sys, e)

\* the entity snapshots of a snapshot, over all its being snapshots, in order
RECURSIVE SnapshotEntities(_)
SnapshotEntities(snapshot) ==
    IF snapshot = <<>>
    THEN <<>>
    ELSE Head(snapshot).entities \o SnapshotEntities(Tail(snapshot))

\* the discriminant indexes of the values a snapshot carries
SnapshotVariants(snapshot) ==
    UNION {{Index(c.data) : c \in Range(e.components)} :
               e \in Range(SnapshotEntities(snapshot))}

\* ascend_being of the being that a fresh StarSystem gets from
\* conceive_being("x") and develop_being of the snapshot; u, u + 1 are the
\* Uids the fresh store draws for the being and for its world
RoundTrip(snapshot, u) ==
    LET s0 == conceive_being(StarSystem_new, "x", u).sys
        d  == develop_being(s0, u, snapshot, u + 1, u + 1)
    IN  IF d.kind = "ok" THEN ascend_being(d.sys, u) ELSE SOut(d.sys, "panic", 0)

\* C2 (I5): for every being with at least one entity and at least one
\* property of each variant, developing its snapshot into a fresh StarSystem
\* and ascending again yields the same entity snapshots: the same ids and
\* names in the same order, with the same components in the same order.
C2_RoundTrip ==
    ~panicked =>
        \A r \in BeingIds(sys) :
            LET a == ascend_being(sys, r)
            IN  (/\ a.kind = "ok"
                 /\ SnapshotEntities(a.val) # <<>>
                 /\ SnapshotVariants(a.val) = Variants)
                => /\ RoundTrip(a.val, nextUid).kind = "ok"
                   /\ SnapshotEntities(RoundTrip(a.val, nextUid).val)
                          = SnapshotEntities(a.val)

\* C3: after every completed operation, every entity mirror references an
\* entity of the world it names, and every property mirror a property id
\* that some table of that world holds.
C3_MirrorsLive ==
    ~panicked =>
        \A e \in EntityMirrors(sys) :
            /\ e.location.world \in DOMAIN sys.worlds
            /\ has_entity(sys.worlds[e.location.world], e.id)
            /\ \A p \in Range(e.properties) :
                  /\ p.location.world \in DOMAIN sys.worlds
                  /\ has_component(sys.worlds[p.location.world], p.id)

\* the component snapshots the location list of an entity stands for: per
\* pair, the pair's id with the name and value its table holds
LocatedComponents(w, entity) ==
    [j \in 1..Len(w.entities[entity].location) |->
        LET index == w.entities[entity].location[j][1]
            id == w.entities[entity].location[j][2]
        IN  [name |-> w.components[index][id].name,
             id |-> id,
             data |-> w.components[index][id].data]]

\* C4: ascend_being of an existing being returns exactly one being snapshot,
\* with the being's id and name, one entity snapshot per entity mirror in
\* mirror order (the mirror's id and name), and in each one component
\* snapshot per pair of the world entity's location list in list order, with
\* the pair's id and the name and value the table holds.
C4_AscendSnapshot ==
    ~panicked =>
        \A r \in BeingIds(sys) :
            LET a == ascend_being(sys, r)
                b == sys.beings[BeingIdx(sys, r)]
            IN  /\ a.kind = "ok"
                /\ Len(a.val) = 1
                /\ a.val[1].id = r
                /\ a.val[1].name = b.name
                /\ Len(a.val[1].entities) = Len(b.entities)
                /\ \A k \in 1..Len(b.entities) :
                      /\ a.val[1].entities[k].id = b.entities[k].id
                      /\ a.val[1].entities[k].name = b.entities[k].name
                      /\ a.val[1].entities[k].components
                             = LocatedComponents(
                                   sys.worlds[b.entities[k].location.world],
                                   b.entities[k].id)

\* the property ids of the world entity behind a mirror (none when the world
\* does not hold the entity)
HeldIds(s, e) ==
    IF e.location.world \in DOMAIN s.worlds
       /\ has_entity(s.worlds[e.location.world], e.id)
    THEN Range(LocationIds(s.worlds[e.location.world], e.id))
    ELSE {}

NoWorldHasEntity(s, entity) ==
    \A w \in DOMAIN s.worlds : ~has_entity(s.worlds[w], entity)

NoWorldHasComponent(s, component) ==
    \A w \in DOMAIN s.worlds : ~has_component(s.worlds[w], component)

\* C5: when constitute_being on a being that holds an entity mirror with the
\* name completes, the being holds exactly one mirror with the name, no world
\* holds the old entity id, and no table holds a property id of the old
\* entity's location list.
C5_AttachReplaces ==
    ~panicked =>
        \A r \in BeingIds(sys), n \in Names, world \in DOMAIN sys.worlds :
            LET i == BeingIdx(sys, r)
                k == FirstIdx({m \in 1..Len(sys.beings[i].entities) :
                                  sys.beings[i].entities[m].name = n})
                o == constitute_being(sys, r, n, nextUid, nextUid, world)
            IN  (k # 0 /\ o.kind = "ok")
                => /\ Cardinality({m \in 1..Len(o.sys.beings[i].entities) :
                                       o.sys.beings[i].entities[m].name = n}) = 1
                   /\ NoWorldHasEntity(o.sys, sys.beings[i].entities[k].id)
                   /\ \A p \in HeldIds(sys, sys.beings[i].entities[k]) :
                          NoWorldHasComponent(o.sys, p)

\* what the store holds of an entity mirror: the mirror, the world entity
\* behind it and the table entries of its property ids
Holding(s, e) ==
    [mirror |-> e,
     entity |-> IF e.location.world \in DOMAIN s.worlds
                   /\ has_entity(s.worlds[e.location.world], e.id)
                THEN <<s.worlds[e.location.world].entities[e.id]>>
                ELSE <<>>,
     tables |-> IF e.location.world \in DOMAIN s.worlds
                THEN [i \in Variants |->
                         [p \in (DOMAIN s.worlds[e.location.world].components[i])
                                \cap ({x.id : x \in Range(e.properties)}
                                      \cup HeldIds(s, e)) |->
                             s.worlds[e.location.world].components[i][p]]]
                ELSE <<>>]

\* C6: when kill_being of an existing being completes, no world holds an
\* entity its mirrors referenced nor a property of those entities, the being
\* is not in the beings list any more, and every other being, with its
\* entities and properties, is as before.
C6_KillRemoves ==
    ~panicked =>
        \A r \in BeingIds(sys) :
            LET i == BeingIdx(sys, r)
                o == kill_being(sys, r)
            IN  o.kind = "ok"
                => /\ \A e \in Range(sys.beings[i].entities) :
                          /\ NoWorldHasEntity(o.sys, e.id)
                          /\ \A p \in HeldIds(sys, e) : NoWorldHasComponent(o.sys, p)
                   /\ r \notin BeingIds(o.sys)
                   /\ o.sys.beings = SeqRemoveAt(sys.beings, i)
                   /\ \A j \in 1..Len(o.sys.beings) :
                          \A e \in Range(o.sys.beings[j].entities) :
                              Holding(o.sys, e) = Holding(sys, e)

\* the ids of a being's mirrors whose world holds the entity
LiveMirrorIds(s, b) ==
    {e.id : e \in {x \in Range(b.entities) :
                       /\ x.location.world \in DOMAIN s.worlds
                       /\ has_entity(s.worlds[x.location.world], x.id)}}

\* a mirror of the being references an entity its world does not hold, or
\* will not hold any more when kill_being comes to it (an earlier mirror has
\* the same id)
HasMissingEntity(s, b) ==
    \E k \in 1..Len(b.entities) :
        /\ b.entities[k].location.world \in DOMAIN s.worlds
        /\ \/ ~has_entity(s.worlds[b.entities[k].location.world], b.entities[k].id)
           \/ \E j \in 1..(k - 1) : b.entities[j].id = b.entities[k].id

\* C7: kill_being of a being with a mirror whose entity the world no longer
\* holds (and with a live count that covers the entities it removes) does not
\* abort: it removes the entities of the other mirrors and the being.
C7_KillNoAbort ==
    ~panicked =>
        \A r \in BeingIds(sys) :
            LET b == sys.beings[BeingIdx(sys, r)]
                o == kill_being(sys, r)
            IN  (/\ HasMissingEntity(sys, b)
                 /\ \A w \in DOMAIN sys.worlds :
                       sys.worlds[w].entities_count
                           >= Cardinality(LiveMirrorIds(sys, b)))
                => /\ o.kind = "ok"
                   /\ Len(o.sys.beings) = Len(sys.beings) - 1
                   /\ \A e \in Range(b.entities) : NoWorldHasEntity(o.sys, e.id)

\* C8: a second remove_property(P) after one that completed completes and
\* leaves the store as it is; and so does a second
\* remove_component_from_entity(entity, P) on a world, for an entity the
\* world holds.
C8_IdempotentRemoval ==
    ~panicked =>
        /\ \A p \in PropertyArgs(sys) :
              LET o1 == remove_property(sys, p, nextUid)
                  o2 == remove_property(o1.sys, p, nextUid)
              IN  o1.kind = "ok" => (o2.kind = "ok" /\ o2.sys = o1.sys)
        /\ \A w \in DOMAIN sys.worlds :
              \A entity \in DOMAIN sys.worlds[w].entities,
                 p \in WorldComponentArgs(sys.worlds[w]) :
                  LET o1 == remove_component_from_entity(sys.worlds[w], entity,
                                                         p, nextUid)
                      o2 == remove_component_from_entity(o1.w, entity, p, nextUid)
                  IN  o1.kind = "ok" => (o2.kind = "ok" /\ o2.w = o1.w)

\* C9: add_component_to_entity on a world with an entity id the registry does
\* not hold returns an error and leaves the world (the tables and the
\* registry) as it is.
C9_AddToUnknownEntity ==
    ~panicked =>
        \A w \in DOMAIN sys.worlds :
            \A entity \in ForeignUids \ DOMAIN sys.worlds[w].entities,
               value \in Values, name \in CompNames :
                LET o == add_component_to_entity(sys.worlds[w], entity, value,
                                                 name, nextUid)
                IN  o.kind = "err" /\ o.w = sys.worlds[w]

\* C10: no StarSystem operation panics on an id that does not exist:
\* set_property with an unknown being or entity id, develop_being with an
\* unknown being id, add_property whose path does not resolve, ascend_being
\* and kill_being with an unknown being id end with Ok or Err.
C10_NoAbortOnMissingId ==
    ~panicked =>
        \A f \in ForeignUids \ BeingIds(sys) :
            /\ \A p \in PropertyArgs(sys), v \in Values, n \in CompNames :
                  /\ \A e \in EntityIds(sys) \cup ForeignUids :
                        set_property(sys, f, e, p, v, n).kind # "panic"
                  /\ \A r \in BeingIds(sys) :
                        set_property(sys, r, f, p, v, n).kind # "panic"
            /\ \A world \in WorldDraws(sys) :
                  \A snapshot \in StoreSnapshots(sys)
                        \cup ForeignSnapshots(nextUid + WorldUids(sys)) :
                      develop_being(sys, f, snapshot, nextUid, world).kind # "panic"
            /\ \A v \in Values, n \in CompNames :
                  /\ \A e \in EntityIds(sys) \cup ForeignUids :
                        add_property(sys, f, e, v, n, nextUid).kind # "panic"
                  /\ \A r \in BeingIds(sys) :
                        add_property(sys, r, f, v, n, nextUid).kind # "panic"
            /\ ascend_being(sys, f).kind # "panic"
            /\ kill_being(sys, f).kind # "panic"

\* the tables of a world that hold the id as a key
TablesHolding(w, id) ==
    {i \in DOMAIN w.components : id \in DOMAIN w.components[i]}

\* C11: (I3) in every world a property id is a key of at most one table; in
\* particular set_property on an existing property id with a value of
\* another variant does not leave the id in two tables.
C11_OneTable ==
    ~panicked =>
        \A w \in DOMAIN sys.worlds :
            \A id \in TableIds(sys.worlds[w]) :
                Cardinality(TablesHolding(sys.worlds[w], id)) <= 1

\* C12: being ids are unique in the beings list after every operation, also
\* after set_being with an id a being already has.
C12_UniqueBeingIds ==
    ~panicked =>
        \A i, j \in 1..Len(sys.beings) :
            sys.beings[i].id = sys.beings[j].id => i = j

\* the property mirrors with the id renamed, every other mirror as it is
Renamed(properties, property, name) ==
    [j \in 1..Len(properties) |->
        IF properties[j].id = property
        THEN [properties[j] EXCEPT !.name = name]
        ELSE properties[j]]

\* the entity mirrors of a being, with the property renamed in the mirrors of
\* the entity
RenamedIn(entities, entity, property, name) ==
    [k \in 1..Len(entities) |->
        IF entities[k].id = entity
        THEN [entities[k] EXCEPT !.properties = Renamed(@, property, name)]
        ELSE entities[k]]

\* C13: set_property(being, entity, P, value, name) on a property P that a
\* mirror of the entity holds returns P, leaves the table entry of P holding
\* exactly the name and the value, gives the property mirror with id P the
\* name and keeps its id, and leaves the number of property mirrors of the
\* entity and every other mirror as they are.
C13_SetPropertyFrame ==
    ~panicked =>
        \A r \in BeingIds(sys), value \in Values, name \in CompNames :
            LET i == BeingIdx(sys, r)
            IN  \A e \in Range(sys.beings[i].entities) :
                    \A P \in Range(MirrorPropertyIds(e)) :
                        LET o == set_property(sys, r, e.id, P, value, name)
                            w == o.sys.worlds[e.location.world]
                        IN  /\ o.kind = "ok"
                            /\ o.val = P
                            /\ TablesHolding(w, P) # {}
                            /\ \A t \in TablesHolding(w, P) :
                                   w.components[t][P]
                                       = [name |-> name, data |-> value]
                            /\ o.sys.beings
                                   = [sys.beings EXCEPT ![i].entities =
                                          RenamedIn(@, e.id, P, name)]

\* the world with the value of the id replaced in one table that holds it
WithValue(w, t, id, value) ==
    [w EXCEPT !.components[t][id].data = value]

\* C14: set_property_by_id(P, value) returns P; when a world holds P it
\* replaces the value of P in a table that holds P and nothing else (the
\* name of P, the keys of every table, every location list, the registry,
\* the live count and every mirror are as before, and so is every other
\* world); when no world holds P it changes nothing.
C14_SetPropertyByIdFrame ==
    ~panicked =>
        \A P \in PropertyArgs(sys), value \in Values :
            LET o == set_property_by_id(sys, P, value)
            IN  /\ o.kind = "ok"
                /\ o.val = P
                /\ o.sys.beings = sys.beings
                /\ DOMAIN o.sys.worlds = DOMAIN sys.worlds
                /\ IF WorldsWith(sys, P) = {}
                   THEN o.sys = sys
                   ELSE \E w \in WorldsWith(sys, P) :
                           /\ \A x \in DOMAIN sys.worlds \ {w} :
                                  o.sys.worlds[x] = sys.worlds[x]
                           /\ \E t \in TablesHolding(sys.worlds[w], P) :
                                  o.sys.worlds[w]
                                      = WithValue(sys.worlds[w], t, P, value)

\* a table holds a value of another variant than its own: only
\* set_property_by_id files a value without looking at its variant
C14_Witness ==
    /\ ~panicked
    /\ \E w \in DOMAIN sys.worlds :
           \E t \in DOMAIN sys.worlds[w].components :
               \E id \in DOMAIN sys.worlds[w].components[t] :
                   sys.worlds[w].components[t][id].data.variant # t

\* the entity snapshots of a snapshot, being by being, in order (the
\* snapshot as a list of its AscendedEntity values)
RECURSIVE EntitySnapshots(_)
EntitySnapshots(snapshot) ==
    IF snapshot = <<>>
    THEN <<>>
    ELSE Head(snapshot).entities \o EntitySnapshots(Tail(snapshot))

\* the entity mirror the claim wants for an entity snapshot
MirrorFor(e, world) ==
    [location |-> [world |-> world, entity |-> e.id],
     id |-> e.id,
     name |-> e.name,
     properties |-> MirrorsOf(e.components, world, e.id)]

\* C15: develop_being on an existing being returns the entity ids of the
\* snapshot in snapshot order; afterwards the world holds each of them as an
\* entity with the snapshot's name, and the being has gained, after the
\* mirrors it had (which are as before), one entity mirror per entity
\* snapshot with its id and name and with one property mirror per component
\* snapshot with the component's id and name.
C15_DevelopPreservesIds ==
    ~panicked =>
        \A r \in BeingIds(sys), world \in WorldDraws(sys) :
            \A snapshot \in StoreSnapshots(sys)
                            \cup ForeignSnapshots(nextUid + WorldUids(sys)) :
                LET i == BeingIdx(sys, r)
                    ents == EntitySnapshots(snapshot)
                    o == develop_being(sys, r, snapshot, nextUid, world)
                IN  /\ o.kind = "ok"
                    /\ o.val = [k \in 1..Len(ents) |-> ents[k].id]
                    /\ \A k \in 1..Len(ents) :
                          /\ has_entity(o.sys.worlds[world], ents[k].id)
                          /\ o.sys.worlds[world].entities[ents[k].id].name
                                 = ents[k].name
                    /\ o.sys.beings
                           = [sys.beings EXCEPT ![i].entities =
                                  @ \o [k \in 1..Len(ents) |->
                                           MirrorFor(ents[k], world)]]

\* the registry without the entity, and the tables without the entries the
\* entity's location list names
WithoutEntity(w, entity) ==
    [entities |-> [x \in DOMAIN w.entities \ {entity} |-> w.entities[x]],
     components |->
         [t \in DOMAIN w.components |->
             [id \in {x \in DOMAIN w.components[t] :
                          <<t, x>> \notin Range(w.entities[entity].location)} |->
                 w.components[t][id]]]]

WorldsKept ==
    \A w \in DOMAIN sys.worlds :
        /\ w \in DOMAIN sys'.worlds
        /\ sys'.worlds[w].id = sys.worlds[w].id

\* on a store without a world, constitute_being and develop_being on a being
\* of the store create exactly one
FirstWorldCreated ==
    (~panicked /\ DOMAIN sys.worlds = {}) =>
        \A r \in BeingIds(sys) :
            /\ \A n \in Names :
                   Cardinality(DOMAIN constitute_being(sys, r, n, nextUid,
                                   nextUid + 1, nextUid).sys.worlds) = 1
            /\ \A snapshot \in StoreSnapshots(sys)
                               \cup ForeignSnapshots(nextUid + 1) :
                   Cardinality(DOMAIN develop_being(sys, r, snapshot, nextUid,
                                   nextUid).sys.worlds) = 1

CanStep(t) == Running(t) /\ (frame[t].locked \/ owner[Wanted(t)] = 0)

C18_NoDeadlock ==
    /\ \A t \in Threads : Cardinality(HeldBy(t)) <= 1
    /\ \A l \in Locks :
           owner[l] # 0 =>
               /\ Running(owner[l])
               /\ frame[owner[l]].locked
               /\ Wanted(owner[l]) = l
    /\ (\E t \in Threads : Running(t)) => \E t \in Threads : CanStep(t)

\* a thread waits for the mutex another thread holds
C18_Witness ==
    \E t, u \in Threads :
        /\ t # u
        /\ Running(t) /\ ~frame[t].locked
        /\ owner[Wanted(t)] = u
        /\ Running(u) /\ frame[u].op # frame[t].op


\* C19: add_component_to_entity and remove_entity on the same entity, each
\* statement under its guard taken as one step, can interleave so that the
\* component is inserted into its table while the entity is being removed.
\* When both calls are over and remove_entity has returned Ok the entity is
\* gone and, unless the whole add came before the removal (then the
\* component went with the entity), the table holds the new id and no
\* location list refers to it: add_component_to_entity has returned Ok, or
\* it has found the entity gone after its insert and panicked.
Finished(t) == pc[t] \in {"done", "panicked"}

Orphaned(w, id) == id \in TableIds(w) \ LocatedIds(w)

AddVsRemoveEntity(t, u) ==
    /\ t # u
    /\ frame[t].op = "add_component_to_entity"
    /\ frame[u].op = "remove_entity"
    /\ frame[t].entity = frame[u].entity
    /\ \A v \in Threads \ {t, u} : pc[v] = "idle"

C19_AddVsRemoveEntity ==
    \A t, u \in Threads :
        (/\ AddVsRemoveEntity(t, u)
         /\ Finished(t)
         /\ pc[u] = "done" /\ frame[u].res = "ok")
        => /\ ~has_entity(TheWorld(sys), frame[u].entity)
           /\ \/ /\ pc[t] = "done" /\ frame[t].res = "ok"
                 /\ frame[t].id \notin TableIds(TheWorld(sys))
              \/ /\ Orphaned(TheWorld(sys), frame[t].id)
                 /\ \/ pc[t] = "done" /\ frame[t].res = "ok"
                    \/ pc[t] = "panicked"

\* both calls have returned Ok and the table holds the orphan: the insert
\* and the push came between the find and the retain of remove_entity
C19_Witness ==
    \E t, u \in Threads :
        /\ AddVsRemoveEntity(t, u)
        /\ pc[t] = "done" /\ frame[t].res = "ok"
        /\ pc[u] = "done" /\ frame[u].res = "ok"
        /\ Orphaned(TheWorld(sys), frame[t].id)


\* C20: get_entity_components is serialized with the mutations of the
\* entity it reads.  Run against a remove_component_from_entity or a
\* remove_entity of the same entity it never reads a location pair that it
\* then fails to resolve in the table (a panic with pairs of its clone of
\* the location list left to resolve), and the list it returns is the
\* entity's list at some moment: every pair of it resolved, none skipped.
ReadVsMutation(t, u) ==
    /\ t # u
    /\ frame[t].op = "get_entity_components"
    /\ frame[u].op \in {"remove_component_from_entity", "remove_entity"}
    /\ frame[t].entity = frame[u].entity
    /\ \A v \in Threads \ {t, u} : pc[v] = "idle"

C20_ReadSerialized ==
    \A t, u \in Threads :
        ReadVsMutation(t, u)
        => /\ ~(pc[t] = "panicked" /\ frame[t].todo # <<>>)
           /\ pc[t] = "done" => frame[t].todo = <<>>


\* C21: after every completed operation the live count of each world is the
\* number of entities in its registry, and it is never below zero (a usize
\* that has wrapped stands here as a negative count).
C21_CountIsRegistrySize ==
    ~panicked =>
        \A w \in DOMAIN sys.worlds :
            /\ sys.worlds[w].entities_count
                   = Cardinality(DOMAIN sys.worlds[w].entities)
            /\ sys.worlds[w].entities_count >= 0


\* C22: table typing.  Every component stored in the table with index i
\* of a world holds a value whose enum index is i, so that
\* get_components_of_type(t) returns only values of the variant of t.
C22_TableTyping ==
    \A w \in DOMAIN sys.worlds :
        /\ \A i \in DOMAIN sys.worlds[w].components :
               \A id \in DOMAIN sys.worlds[w].components[i] :
                   Index(sys.worlds[w].components[i][id].data) = i
        /\ \A t \in Values :
               LET r == get_components_of_type(sys.worlds[w], t).val
               IN  \A id \in DOMAIN r : Index(r[id].data) = Index(t)


\* C23: no orphaned entities.  After any sequence of completed operations
\* of the store every entity in the registry of a world is the location of
\* exactly one entity mirror of some being.
MirrorsAt(s, w, e) ==
    UNION {{<<i, k>> : k \in {n \in 1..Len(s.beings[i].entities) :
                                   s.beings[i].entities[n].location
                                       = [world |-> w, entity |-> e]}} :
               i \in 1..Len(s.beings)}

C23_NoOrphanEntities ==
    ~panicked =>
        \A w \in DOMAIN sys.worlds :
            \A e \in DOMAIN sys.worlds[w].entities :
                Cardinality(MirrorsAt(sys, w, e)) = 1


\* C24: remove_component_from_entity(entity, component) deletes a table
\* entry only when the component is in the location list of the entity.
\* Called with an entity of the world and a component that another entity
\* holds, it leaves the tables as they were, and get_entity_components of
\* every other entity returns what it returned before.
Holds(w, e, component) ==
    \E k \in 1..Len(w.entities[e].location) :
        w.entities[e].location[k][2] = component

C24_RemovesOnlyOwnComponent ==
    \A w \in DOMAIN sys.worlds :
        \A entity \in DOMAIN sys.worlds[w].entities,
           component \in TableIds(sys.worlds[w]) :
            (/\ ~Holds(sys.worlds[w], entity, component)
             /\ \E other \in DOMAIN sys.worlds[w].entities \ {entity} :
                    Holds(sys.worlds[w], other, component))
            => LET o == remove_component_from_entity(sys.worlds[w], entity,
                                                     component, nextUid)
               IN  /\ o.w.components = sys.worlds[w].components
                   /\ \A other \in DOMAIN sys.worlds[w].entities \ {entity} :
                          get_entity_components(o.w, other)
                              = get_entity_components(sys.worlds[w], other)

====
